---- MODULE Spec2Model ----
(***************************************************************************)
(* Model of VKShaderInterface (source/blender/gpu/vulkan/                  *)
(* vk_shader_interface.cc): the construction of the shader input table,    *)
(* the name buffer and the descriptor set locations by init(), and the     *)
(* lookups shader_input_get() / descriptor_set_location().                 *)
(*                                                                         *)
(* Pointers into inputs_ are modelled as 1-based table positions, the null *)
(* pointer as position 0.  The C cursor `input` is kept 0-based (number of  *)
(* records already written), so the record it points at is inputs_[input+1].*)
(***************************************************************************)
EXTENDS Integers, Sequences, FiniteSets, TLC

(* ---------------------------- bounds ---------------------------------- *)
MaxPass == 2
MaxBatch == 1
MaxSlot == 1
MaxBuilds == 2

(* ------------------------- input domains ------------------------------ *)
BindTypes == {"UNIFORM_BUFFER", "STORAGE_BUFFER", "SAMPLER", "IMAGE"}
Slots == 0..MaxSlot
\* Names are byte strings; three names of two lengths over two bytes.
Names == {<<1>>, <<1, 2>>, <<2>>}
\* ShaderCreateInfo::Resource as the interface reads it: bind_type, slot and
\* the name of the active union member (image.name, sampler.name,
\* storagebuf.name all denote the declaration's name).
Resource == [bind_type : BindTypes, slot : Slots, name : Names]
SeqsUpTo(S, n) == UNION {[1..k -> S] : k \in 0..n}
\* Slots a caller may ask for: every slot a binding can take, declared or not.
QuerySlots == 0..(2 * MaxSlot + 1)

NULL == 0
NoLocation == -1

VARIABLES
  info,                       \* ShaderCreateInfo: pass_resources_, batch_resources_, interface_names_size_
  pc,                         \* position inside init(), "done" after it returned, "ub" after an out-of-bounds write
  all_resources,              \* local Vector all_resources
  i,                          \* index of the range-for loop in progress
  attr_len_, uniform_len_, ssbo_len_, ubo_len_, image_offset_,
  input_tot_len,              \* local input_tot_len, the allocated length of inputs_
  inputs_,                    \* the ShaderInput table
  input,                      \* local cursor ShaderInput *input, as an offset from inputs_
  name_buffer_, name_buffer_offset,
  descriptor_set_locations_,
  descriptor_set_location,    \* local counter of the second pass
  writes,                     \* history: how often the population wrote each table position
  builds,                     \* history: number of completed init() calls
  first_build,                \* history: the result of the first completed init()
  query                       \* the last lookup issued after construction and its result

vars == <<info, pc, all_resources, i, attr_len_, uniform_len_, ssbo_len_, ubo_len_,
          image_offset_, input_tot_len, inputs_, input, name_buffer_, name_buffer_offset,
          descriptor_set_locations_, descriptor_set_location, writes, builds,
          first_build, query>>

(* ----------------------------- helpers -------------------------------- *)
max_ii(a, b) == IF a > b THEN a ELSE b

RECURSIVE SumNameLen(_)
SumNameLen(rs) == IF rs = <<>> THEN 0 ELSE Len(Head(rs).name) + SumNameLen(Tail(rs))

\* calloc'ed ShaderInput: all fields zero.  origin is a history field: the
\* index in all_resources of the declaration the record was written for.
ZeroInput == [name_offset |-> 0, name_length |-> 0, location |-> 0, binding |-> 0, origin |-> 0]

\* The name a record refers to: name_length bytes of the buffer at name_offset.
NameAt(buf, rec) == SubSeq(buf, rec.name_offset + 1, rec.name_offset + rec.name_length)
NameOf(rec) == NameAt(name_buffer_, rec)

\* Byte-wise order on names (strict).
RECURSIVE NameLess(_, _)
NameLess(a, b) ==
  IF b = <<>> THEN FALSE
  ELSE IF a = <<>> THEN TRUE
  ELSE IF Head(a) < Head(b) THEN TRUE
  ELSE IF Head(a) > Head(b) THEN FALSE
  ELSE NameLess(Tail(a), Tail(b))

Front(s) == SubSeq(s, 1, Len(s) - 1)
Last(s) == s[Len(s)]

\* Stable insertion of x into a list sorted by name.
RECURSIVE InsertByName(_, _, _)
InsertByName(sorted, x, buf) ==
  IF sorted = <<>> THEN <<x>>
  ELSE IF NameLess(NameAt(buf, x), NameAt(buf, Last(sorted)))
       THEN Append(InsertByName(Front(sorted), x, buf), Last(sorted))
       ELSE Append(sorted, x)

RECURSIVE sort_input_list(_, _)
sort_input_list(s, buf) ==
  IF s = <<>> THEN <<>>
  ELSE InsertByName(sort_input_list(Front(s), buf), Last(s), buf)

\* sort_inputs(): every group of the table is sorted by name on its own.
sort_inputs(tbl, buf, nubo, nuni, nssbo) ==
  sort_input_list(SubSeq(tbl, 1, nubo), buf)
    \o sort_input_list(SubSeq(tbl, nubo + 1, nubo + nuni), buf)
    \o sort_input_list(SubSeq(tbl, nubo + nuni + 1, nubo + nuni + nssbo), buf)

\* Lookup by binding inside the group of len records that follows the first
\* `before` records: the position of the last match, NULL when there is none.
input_lookup(before, len, binding) ==
  LET M == {p \in (before + 1)..(before + len) : inputs_[p].binding = binding}
  IN  IF M = {} THEN NULL ELSE CHOOSE p \in M : \A q \in M : q <= p

ubo_get(binding) == input_lookup(attr_len_, ubo_len_, binding)
texture_get(binding) == input_lookup(attr_len_ + ubo_len_, uniform_len_, binding)
ssbo_get(binding) == input_lookup(attr_len_ + ubo_len_ + uniform_len_, ssbo_len_, binding)

\* Variant: the image case forgets the offset.
shader_input_get_no_offset(bind_type, binding) ==
  CASE bind_type = "IMAGE" -> texture_get(binding)
    [] bind_type = "SAMPLER" -> texture_get(binding)
    [] bind_type = "STORAGE_BUFFER" -> ssbo_get(binding)
    [] bind_type = "UNIFORM_BUFFER" -> ubo_get(binding)
    [] OTHER -> NULL

\* Variant: the storage buffer case searches the uniform buffer group.
shader_input_get_ssbo_as_ubo(bind_type, binding) ==
  CASE bind_type = "IMAGE" -> texture_get(binding + image_offset_)
    [] bind_type = "SAMPLER" -> texture_get(binding)
    [] bind_type = "STORAGE_BUFFER" -> ubo_get(binding)
    [] bind_type = "UNIFORM_BUFFER" -> ubo_get(binding)
    [] OTHER -> NULL

shader_input_get(bind_type, binding) ==
  CASE bind_type = "IMAGE" -> texture_get(binding + image_offset_)
    [] bind_type = "SAMPLER" -> texture_get(binding)
    [] bind_type = "STORAGE_BUFFER" -> ssbo_get(binding)
    [] bind_type = "UNIFORM_BUFFER" -> ubo_get(binding)
    [] OTHER -> NULL

shader_input_get_res(resource) == shader_input_get(resource.bind_type, resource.slot)

\* shader_input_index: pointer difference, as a 0-based index.
shader_input_index(shader_input) == shader_input - 1

\* descriptor_set_location(const ShaderInput *)
descriptor_set_location_of(shader_input) ==
  descriptor_set_locations_[shader_input_index(shader_input) + 1]

\* Binary search by name inside positions lo..hi of a group sorted by name.
RECURSIVE name_search(_, _, _)
name_search(lo, hi, name) ==
  IF lo > hi THEN NULL
  ELSE LET mid == (lo + hi) \div 2
       IN  IF NameOf(inputs_[mid]) = name THEN mid
           ELSE IF NameLess(NameOf(inputs_[mid]), name)
                THEN name_search(mid + 1, hi, name)
                ELSE name_search(lo, mid - 1, name)

\* Query by name: the groups are searched in table order.
query_by_name(name) ==
  LET u == name_search(1, ubo_len_, name)
      t == name_search(ubo_len_ + 1, ubo_len_ + uniform_len_, name)
      s == name_search(ubo_len_ + uniform_len_ + 1, ubo_len_ + uniform_len_ + ssbo_len_, name)
  IN  IF u # NULL THEN u ELSE IF t # NULL THEN t ELSE s

(* ------------------- pieces of init() that compute -------------------- *)
\* Variant: the field is not reset between builds.
image_offset_kept(previous) == previous

\* line 20: image_offset_ = -1, whatever an earlier build left in the field.
image_offset_reset(previous) == -1

\* Variant: the last sampler's slot instead of the greatest.
classify_image_offset_last(offset, res) ==
  IF res.bind_type = "SAMPLER" THEN res.slot ELSE offset

\* lines 27-41, image_offset_ part: a sampler raises it to its slot, an image
\* (and every buffer) leaves it alone.
classify_image_offset(offset, res) ==
  IF res.bind_type = "SAMPLER" THEN max_ii(offset, res.slot) ELSE offset

\* Variant: the increment after the loop is missing.
image_offset_not_bumped(offset) == offset

\* line 44: image_offset_++
image_offset_final(offset) == offset + 1

\* Variant: the storage buffers are left out of the total.
input_tot_len_no_ssbo(nubo, nuni, nssbo) == nubo + nuni

\* line 46
input_tot_len_of(nubo, nuni, nssbo) == nubo + nuni + nssbo

\* line 72: the location and binding of an image record.
image_binding(res, offset) == res.slot + offset

\* The result of a completed build, as compared between builds.
Snapshot ==
  [image_offset_ |-> image_offset_, ubo_len_ |-> ubo_len_, uniform_len_ |-> uniform_len_,
   ssbo_len_ |-> ssbo_len_, inputs_ |-> inputs_, name_buffer_ |-> name_buffer_,
   descriptor_set_locations_ |-> descriptor_set_locations_]

NoQuery == [kind |-> "none"]

(* ------------------------------ Init ---------------------------------- *)
Init ==
  /\ info \in {[pass_resources_ |-> p, batch_resources_ |-> b,
                interface_names_size_ |-> SumNameLen(p \o b)] :
                 p \in SeqsUpTo(Resource, MaxPass), b \in SeqsUpTo(Resource, MaxBatch)}
  /\ pc = "start"
  /\ all_resources = <<>>
  /\ i = 1
  /\ attr_len_ = 0 /\ uniform_len_ = 0 /\ ssbo_len_ = 0 /\ ubo_len_ = 0
  /\ image_offset_ = 0
  /\ input_tot_len = 0
  /\ inputs_ = <<>>
  /\ input = 0
  /\ name_buffer_ = <<>>
  /\ name_buffer_offset = 0
  /\ descriptor_set_locations_ = <<>>
  /\ descriptor_set_location = 0
  /\ writes = <<>>
  /\ builds = 0
  /\ first_build = NoQuery
  /\ query = NoQuery

(* ----------------------------- init() --------------------------------- *)
\* lines 16-24: reset the counters and concatenate the two resource lists.
Reset ==
  /\ pc = "start"
  /\ attr_len_' = 0 /\ uniform_len_' = 0 /\ ssbo_len_' = 0 /\ ubo_len_' = 0
  /\ image_offset_' = image_offset_reset(image_offset_)
  /\ all_resources' = info.pass_resources_ \o info.batch_resources_
  /\ i' = 1
  /\ pc' = "count"
  /\ UNCHANGED <<info, input_tot_len, inputs_, input, name_buffer_, name_buffer_offset,
                 descriptor_set_locations_, descriptor_set_location, writes, builds,
                 first_build, query>>

\* lines 26-42: one iteration of the classification loop.
Classify ==
  /\ pc = "count" /\ i <= Len(all_resources)
  /\ LET res == all_resources[i] IN
       /\ image_offset_' = classify_image_offset(image_offset_, res)
       /\ uniform_len_' = IF res.bind_type \in {"IMAGE", "SAMPLER"} THEN uniform_len_ + 1 ELSE uniform_len_
       /\ ubo_len_' = IF res.bind_type = "UNIFORM_BUFFER" THEN ubo_len_ + 1 ELSE ubo_len_
       /\ ssbo_len_' = IF res.bind_type = "STORAGE_BUFFER" THEN ssbo_len_ + 1 ELSE ssbo_len_
  /\ i' = i + 1
  /\ UNCHANGED <<info, pc, all_resources, attr_len_, input_tot_len, inputs_, input, name_buffer_,
                 name_buffer_offset, descriptor_set_locations_, descriptor_set_location,
                 writes, builds, first_build, query>>

\* lines 43-52: after the loop, bump image_offset_ and allocate the table and
\* the name buffer (calloc: zeroed records; malloc: unwritten bytes).
Allocate ==
  /\ pc = "count" /\ i > Len(all_resources)
  /\ image_offset_' = image_offset_final(image_offset_)
  /\ input_tot_len' = input_tot_len_of(ubo_len_, uniform_len_, ssbo_len_)
  /\ inputs_' = [p \in 1..input_tot_len' |-> ZeroInput]
  /\ input' = 0
  /\ name_buffer_' = [p \in 1..info.interface_names_size_ |-> 0]
  /\ name_buffer_offset' = 0
  /\ writes' = [p \in 1..input_tot_len' |-> 0]
  /\ i' = 1
  /\ pc' = "ubo"
  /\ UNCHANGED <<info, all_resources, attr_len_, uniform_len_, ssbo_len_, ubo_len_,
                 descriptor_set_locations_, descriptor_set_location, builds, first_build, query>>

\* copy_input_name(input, name, name_buffer_, name_buffer_offset);
\* input->location = input->binding = binding; input++;
\* for the declaration at index k.  A write past the table or past the name
\* buffer is out of bounds.
StoreInput(name, binding, k) ==
  IF input >= input_tot_len \/ name_buffer_offset + Len(name) > Len(name_buffer_)
  THEN /\ pc' = "ub"
       /\ UNCHANGED <<inputs_, input, name_buffer_, name_buffer_offset, writes>>
  ELSE /\ inputs_' = [inputs_ EXCEPT ![input + 1] =
                        [name_offset |-> name_buffer_offset, name_length |-> Len(name),
                         location |-> binding, binding |-> binding, origin |-> k]]
       /\ name_buffer_' = [p \in 1..Len(name_buffer_) |->
                             IF p > name_buffer_offset /\ p <= name_buffer_offset + Len(name)
                             THEN name[p - name_buffer_offset] ELSE name_buffer_[p]]
       /\ name_buffer_offset' = name_buffer_offset + Len(name)
       /\ input' = input + 1
       /\ writes' = [writes EXCEPT ![input + 1] = @ + 1]
       /\ UNCHANGED pc

SkipInput == UNCHANGED <<pc, inputs_, input, name_buffer_, name_buffer_offset, writes>>

PopulationFrame ==
  UNCHANGED <<info, all_resources, attr_len_, uniform_len_, ssbo_len_, ubo_len_, image_offset_,
              input_tot_len, descriptor_set_locations_, descriptor_set_location, builds,
              first_build, query>>

LoopExit(from, to) ==
  /\ pc = from /\ i > Len(all_resources)
  /\ pc' = to
  /\ i' = 1
  /\ UNCHANGED <<info, all_resources, attr_len_, uniform_len_, ssbo_len_, ubo_len_, image_offset_,
                 input_tot_len, inputs_, input, name_buffer_, name_buffer_offset,
                 descriptor_set_locations_, descriptor_set_location, writes, builds,
                 first_build, query>>

\* lines 54-61: one iteration of the uniform block loop.
PopulateUbo ==
  /\ pc = "ubo" /\ i <= Len(all_resources)
  /\ LET res == all_resources[i] IN
       IF res.bind_type = "UNIFORM_BUFFER" THEN StoreInput(res.name, res.slot, i) ELSE SkipInput
  /\ i' = i + 1
  /\ PopulationFrame

UboDone == LoopExit("ubo", "tex")

\* lines 63-75: one iteration of the sampler and image loop.
PopulateTex ==
  /\ pc = "tex" /\ i <= Len(all_resources)
  /\ LET res == all_resources[i] IN
       IF res.bind_type = "SAMPLER" THEN StoreInput(res.name, res.slot, i)
       ELSE IF res.bind_type = "IMAGE"
            THEN StoreInput(res.name, image_binding(res, image_offset_), i)
            ELSE SkipInput
  /\ i' = i + 1
  /\ PopulationFrame

TexDone == LoopExit("tex", "ssbo")

\* lines 77-84: one iteration of the storage buffer loop.
PopulateSsbo ==
  /\ pc = "ssbo" /\ i <= Len(all_resources)
  /\ LET res == all_resources[i] IN
       IF res.bind_type = "STORAGE_BUFFER" THEN StoreInput(res.name, res.slot, i) ELSE SkipInput
  /\ i' = i + 1
  /\ PopulationFrame

SsboDone == LoopExit("ssbo", "sort")

\* Variant: the call of sort_inputs() is missing.
SortInputsSkipped ==
  /\ pc = "sort"
  /\ pc' = "locs"
  /\ UNCHANGED <<info, all_resources, i, attr_len_, uniform_len_, ssbo_len_, ubo_len_,
                 image_offset_, input_tot_len, inputs_, input, name_buffer_,
                 name_buffer_offset, descriptor_set_locations_, descriptor_set_location,
                 writes, builds, first_build, query>>

\* line 86: sort_inputs()
SortInputs ==
  /\ pc = "sort"
  /\ inputs_' = sort_inputs(inputs_, name_buffer_, ubo_len_, uniform_len_, ssbo_len_)
  /\ pc' = "locs"
  /\ UNCHANGED <<info, all_resources, i, attr_len_, uniform_len_, ssbo_len_, ubo_len_,
                 image_offset_, input_tot_len, input, name_buffer_, name_buffer_offset,
                 descriptor_set_locations_, descriptor_set_location, writes, builds,
                 first_build, query>>

\* lines 89-90: a fresh array of input_tot_len locations, counter at 0.
AllocateLocations ==
  /\ pc = "locs"
  /\ descriptor_set_locations_' = [p \in 1..input_tot_len |-> NoLocation]
  /\ descriptor_set_location' = 0
  /\ i' = 1
  /\ pc' = "locate"
  /\ UNCHANGED <<info, all_resources, attr_len_, uniform_len_, ssbo_len_, ubo_len_,
                 image_offset_, input_tot_len, inputs_, input, name_buffer_,
                 name_buffer_offset, writes, builds, first_build, query>>

\* Variant: the second pass walks the list backwards.
second_pass_resource_reversed(k) == all_resources[Len(all_resources) + 1 - k]

\* The resource the second pass visits in its iteration number k.
second_pass_resource(k) == all_resources[k]

\* Variant: the counter is incremented before it is stored.
descriptor_set_location_update_preincrement(shader_input, location) ==
  [descriptor_set_locations_ EXCEPT ![shader_input_index(shader_input) + 1] = location + 1]

\* descriptor_set_location_update (lines 104-109): the array after the store,
\* for an index inside it.
descriptor_set_location_update(shader_input, location) ==
  [descriptor_set_locations_ EXCEPT ![shader_input_index(shader_input) + 1] = location]

\* lines 91-94: one iteration of the second pass.
Locate ==
  /\ pc = "locate" /\ i <= Len(all_resources)
  /\ LET shader_input == shader_input_get_res(second_pass_resource(i))
         index == shader_input_index(shader_input)
     IN  IF index < 0 \/ index >= Len(descriptor_set_locations_)
         THEN /\ pc' = "ub"
              /\ UNCHANGED descriptor_set_locations_
         ELSE /\ descriptor_set_locations_' =
                   descriptor_set_location_update(shader_input, descriptor_set_location)
              /\ UNCHANGED pc
  /\ descriptor_set_location' = descriptor_set_location + 1
  /\ i' = i + 1
  /\ UNCHANGED <<info, all_resources, attr_len_, uniform_len_, ssbo_len_, ubo_len_,
                 image_offset_, input_tot_len, inputs_, input, name_buffer_,
                 name_buffer_offset, writes, builds, first_build, query>>

\* line 95: init() returns.
Return ==
  /\ pc = "locate" /\ i > Len(all_resources)
  /\ pc' = "done"
  /\ builds' = builds + 1
  /\ first_build' = IF builds = 0 THEN Snapshot ELSE first_build
  /\ UNCHANGED <<info, all_resources, i, attr_len_, uniform_len_, ssbo_len_, ubo_len_,
                 image_offset_, input_tot_len, inputs_, input, name_buffer_,
                 name_buffer_offset, descriptor_set_locations_, descriptor_set_location,
                 writes, query>>

\* init() is called again on the same ShaderCreateInfo.
Rebuild ==
  /\ pc = "done" /\ builds < MaxBuilds
  /\ pc' = "start"
  /\ query' = NoQuery
  /\ UNCHANGED <<info, all_resources, i, attr_len_, uniform_len_, ssbo_len_, ubo_len_,
                 image_offset_, input_tot_len, inputs_, input, name_buffer_,
                 name_buffer_offset, descriptor_set_locations_, descriptor_set_location,
                 writes, builds, first_build>>

(* ----------------------------- queries -------------------------------- *)
QueryFrame ==
  UNCHANGED <<info, pc, all_resources, i, attr_len_, uniform_len_, ssbo_len_, ubo_len_,
              image_offset_, input_tot_len, inputs_, input, name_buffer_,
              name_buffer_offset, descriptor_set_locations_, descriptor_set_location,
              writes, builds, first_build>>

\* A lookup reads the interface and changes nothing in it, so a behaviour
\* records one lookup: the states reached are those of any number of lookups.
\*
\* descriptor_set_location(bind_type, binding), lines 126-132: the record found
\* by shader_input_get and, when BLI_assert(shader_input) passes, its location.
LookupSlot ==
  /\ pc = "done" /\ query = NoQuery
  /\ \E bind_type \in BindTypes, binding \in QuerySlots :
       LET shader_input == shader_input_get(bind_type, binding) IN
         query' = [kind |-> "slot", bind_type |-> bind_type, binding |-> binding,
                   result |-> shader_input,
                   location |-> IF shader_input = NULL THEN NoLocation
                                ELSE descriptor_set_location_of(shader_input)]
  /\ QueryFrame

\* Query by name.
LookupName ==
  /\ pc = "done" /\ query = NoQuery
  /\ \E name \in Names :
       query' = [kind |-> "name", name |-> name, result |-> query_by_name(name)]
  /\ QueryFrame

\* init() from its first statement to its return.
Build ==
  \/ Reset
  \/ Classify
  \/ Allocate
  \/ PopulateUbo
  \/ UboDone
  \/ PopulateTex
  \/ TexDone
  \/ PopulateSsbo
  \/ SsboDone
  \/ SortInputs
  \/ AllocateLocations
  \/ Locate
  \/ Return

\* One construction, then lookups.
Next ==
  \/ Build
  \/ LookupSlot
  \/ LookupName

Spec == Init /\ [][Next]_vars

\* Construction repeated on the same ShaderCreateInfo.
NextRebuild ==
  \/ Build
  \/ Rebuild

SpecRebuild == Init /\ [][NextRebuild]_vars

(* ------------------------ vocabulary of the claims -------------------- *)
PostAlloc == {"ubo", "tex", "ssbo", "sort", "locs", "locate", "done"}
PostPopulation == {"sort", "locs", "locate", "done"}
PostSort == {"locs", "locate", "done"}

OriginOf(p) == all_resources[inputs_[p].origin]
Declared(bind_type, slot) ==
  \E k \in 1..Len(all_resources) :
    all_resources[k].bind_type = bind_type /\ all_resources[k].slot = slot
NoSharedSlot ==
  \A j, k \in 1..Len(all_resources) :
    (all_resources[j].bind_type = all_resources[k].bind_type
       /\ all_resources[j].slot = all_resources[k].slot) => j = k
HasType(bind_type) == \E k \in 1..Len(all_resources) : all_resources[k].bind_type = bind_type
SamplerSlots == {all_resources[k].slot : k \in {j \in 1..Len(all_resources) : all_resources[j].bind_type = "SAMPLER"}}
MaxSamplerSlot == CHOOSE m \in SamplerSlots \cup {-1} : \A x \in SamplerSlots \cup {-1} : x <= m
ExpectedBinding(r) == IF r.bind_type = "IMAGE" THEN r.slot + image_offset_ ELSE r.slot
\* Indices of the declarations of the given bind-types, in descriptor-list order.
RECURSIVE IndicesOf(_, _)
IndicesOf(types, n) ==
  IF n = 0 THEN <<>>
  ELSE IF all_resources[n].bind_type \in types
       THEN Append(IndicesOf(types, n - 1), n) ELSE IndicesOf(types, n - 1)
SortedGroup(lo, hi) ==
  \A p \in lo..(hi - 1) : ~NameLess(NameOf(inputs_[p + 1]), NameOf(inputs_[p]))
SortedTable ==
  /\ SortedGroup(1, ubo_len_)
  /\ SortedGroup(ubo_len_ + 1, ubo_len_ + uniform_len_)
  /\ SortedGroup(ubo_len_ + uniform_len_ + 1, ubo_len_ + uniform_len_ + ssbo_len_)
Populated ==
  /\ input = input_tot_len
  /\ \A p \in 1..Len(inputs_) : writes[p] = 1
\* The sort moved a record: two records of a group stand in the opposite
\* order of their declarations.
SortPermuted ==
  \E p, q \in 1..Len(inputs_) :
    p < q /\ inputs_[p].origin > inputs_[q].origin
      /\ OriginOf(p).bind_type = OriginOf(q).bind_type

(* ------------------------------ claims -------------------------------- *)

\* C1: lookup round-trip.  After init, for every resource r of
\* pass_resources_ followed by batch_resources_, shader_input_get(r.bind_type,
\* r.slot) is not null, the record's binding is r.slot (r.slot + image_offset_
\* for an image), and its position indexes a written descriptor set location.
C1_LookupRoundTrip ==
  pc = "done" =>
    /\ all_resources = info.pass_resources_ \o info.batch_resources_
    /\ \A k \in 1..Len(all_resources) :
         LET r == all_resources[k]
             p == shader_input_get(r.bind_type, r.slot)
         IN  /\ p # NULL
             /\ p \in 1..Len(inputs_)
             /\ inputs_[p].binding = ExpectedBinding(r)
             /\ shader_input_index(p) \in 0..(Len(descriptor_set_locations_) - 1)
             /\ descriptor_set_location_of(p) \in 0..(Len(all_resources) - 1)

C1_Witness ==
  /\ pc = "done"
  /\ Len(info.pass_resources_) = MaxPass /\ Len(info.batch_resources_) = MaxBatch
  /\ HasType("IMAGE") /\ HasType("SAMPLER")
  /\ image_offset_ > 1

\* C2: positional alignment.  After init on a list in which no two resources
\* share bind-type and slot, the location at position p belongs to the record
\* at position p: the resource at index k (counter from 0) finds its own
\* record, and the value k - 1 (0-based k) is stored at that record's position,
\* wherever the sort placed it.
C2_PositionalAlignment ==
  (pc = "done" /\ NoSharedSlot) =>
    /\ Len(descriptor_set_locations_) = Len(inputs_)
    /\ \A p \in 1..Len(inputs_) : descriptor_set_locations_[p] = inputs_[p].origin - 1
    /\ \A k \in 1..Len(all_resources) :
         LET p == shader_input_get_res(all_resources[k])
         IN  /\ p # NULL
             /\ inputs_[p].origin = k
             /\ descriptor_set_location_of(p) = k - 1

C2_Witness ==
  /\ pc = "done"
  /\ NoSharedSlot
  /\ Len(all_resources) = MaxPass + MaxBatch
  /\ SortPermuted

\* C3: sampler and image locations never collide.  Once the table is
\* populated, image_offset_ = 1 + the greatest sampler slot (0 without
\* samplers), a sampler record has location = binding = slot, an image record
\* has location = binding = slot + image_offset_, and no image record's
\* location equals a sampler record's location.
C3_NoSamplerImageCollision ==
  pc \in PostPopulation =>
    /\ image_offset_ = 1 + MaxSamplerSlot
    /\ \A p \in 1..Len(inputs_) :
         LET r == OriginOf(p) IN
           /\ r.bind_type = "SAMPLER" =>
                (inputs_[p].location = r.slot /\ inputs_[p].binding = r.slot)
           /\ r.bind_type = "IMAGE" =>
                (inputs_[p].location = r.slot + image_offset_
                   /\ inputs_[p].binding = r.slot + image_offset_)
    /\ \A p, q \in 1..Len(inputs_) :
         (OriginOf(p).bind_type = "SAMPLER" /\ OriginOf(q).bind_type = "IMAGE")
           => inputs_[p].location # inputs_[q].location

C3_Witness ==
  /\ pc = "done"
  /\ \E j, k, l \in 1..Len(all_resources) :
       /\ j < k
       /\ all_resources[j].bind_type = "SAMPLER" /\ all_resources[j].slot = MaxSlot
       /\ all_resources[k].bind_type = "SAMPLER" /\ all_resources[k].slot = 0
       /\ all_resources[l].bind_type = "IMAGE" /\ all_resources[l].slot = MaxSlot

\* C4: exactly one record per resource.  The table is allocated with
\* ubo_len_ + uniform_len_ + ssbo_len_ records, which is the length of the
\* concatenated list; the population never writes past the table (or the name
\* buffer), writes the positions in order and each exactly once; and the
\* descriptor set locations have the table's length.
C4_OneRecordPerResource ==
  /\ pc # "ub"
  /\ pc \in PostAlloc =>
       /\ Len(inputs_) = ubo_len_ + uniform_len_ + ssbo_len_
       /\ Len(inputs_) = Len(info.pass_resources_) + Len(info.batch_resources_)
       /\ input <= Len(inputs_)
       /\ \A p \in 1..Len(inputs_) : writes[p] = (IF p <= input THEN 1 ELSE 0)
  /\ pc \in PostPopulation =>
       /\ Populated
       /\ \A k \in 1..Len(all_resources) :
            Cardinality({p \in 1..Len(inputs_) : inputs_[p].origin = k}) = 1
  /\ pc \in {"locate", "done"} => Len(descriptor_set_locations_) = Len(inputs_)

C4_Witness ==
  /\ pc = "done"
  /\ Len(inputs_) = MaxPass + MaxBatch
  /\ ubo_len_ > 0 /\ uniform_len_ > 0 /\ ssbo_len_ > 0

\* C5 as stated: name lookup round-trip.  After init, looking up the name of
\* any record of the table returns that record's position.
C5_NameRoundTripAll ==
  pc = "done" =>
    \A p \in 1..Len(inputs_) : query_by_name(NameOf(inputs_[p])) = p

\* C5 amended: the round-trip holds for every record whose name no other
\* record of the table carries.
C5_NameRoundTripUnique ==
  pc = "done" =>
    \A p \in 1..Len(inputs_) :
      (\A q \in 1..Len(inputs_) : NameOf(inputs_[q]) = NameOf(inputs_[p]) => q = p)
        => query_by_name(NameOf(inputs_[p])) = p

C5_Witness ==
  /\ pc = "done"
  /\ query.kind = "name" /\ query.result # NULL
  /\ Len(inputs_) = MaxPass + MaxBatch
  /\ \A p, q \in 1..Len(inputs_) : NameOf(inputs_[p]) = NameOf(inputs_[q]) => p = q
  /\ SortPermuted

\* C6 as stated: a lookup by (bind_type, slot) that no resource declares
\* returns null, and a lookup never returns the record of a resource of
\* another bind-type (a sampler lookup no image record, an image lookup no
\* sampler record).
C6_AbsentIsNull ==
  (pc = "done" /\ query.kind = "slot") =>
    /\ ~Declared(query.bind_type, query.binding) => query.result = NULL
    /\ query.result # NULL => OriginOf(query.result).bind_type = query.bind_type

\* C7: idempotence.  A second init on the same ShaderCreateInfo ends with the
\* image_offset_, the group lengths, the table (content and order), the name
\* buffer and the descriptor set locations of the first.
C7_Idempotent ==
  (pc = "done" /\ builds >= 2) => Snapshot = first_build

C7_Witness ==
  /\ pc = "done" /\ builds = 2
  /\ Len(all_resources) = MaxPass + MaxBatch
  /\ HasType("SAMPLER") /\ HasType("IMAGE")
  /\ image_offset_ > 1
  /\ SortPermuted

\* C8: group sub-ranges.  The population leaves the records in group order
\* (uniform buffers, then samplers and images in list order, then storage
\* buffers); after the sort the table still is three contiguous groups of
\* these bind-types and lengths; and a uniform buffer or storage buffer lookup
\* for a slot returns null or a record of that bind-type and slot.
C8_GroupRanges ==
  /\ pc = "sort" =>
       [p \in 1..Len(inputs_) |-> inputs_[p].origin]
         = IndicesOf({"UNIFORM_BUFFER"}, Len(all_resources))
             \o IndicesOf({"SAMPLER", "IMAGE"}, Len(all_resources))
             \o IndicesOf({"STORAGE_BUFFER"}, Len(all_resources))
  /\ pc \in PostSort =>
       \A p \in 1..Len(inputs_) :
         /\ p <= ubo_len_ <=> OriginOf(p).bind_type = "UNIFORM_BUFFER"
         /\ (ubo_len_ < p /\ p <= ubo_len_ + uniform_len_)
              <=> OriginOf(p).bind_type \in {"SAMPLER", "IMAGE"}
         /\ ubo_len_ + uniform_len_ < p <=> OriginOf(p).bind_type = "STORAGE_BUFFER"
  /\ pc = "done" =>
       \A bind_type \in {"UNIFORM_BUFFER", "STORAGE_BUFFER"}, s \in QuerySlots :
         LET p == shader_input_get(bind_type, s) IN
           /\ p # NULL => (OriginOf(p).bind_type = bind_type /\ OriginOf(p).slot = s)
           /\ Declared(bind_type, s) => p # NULL

C8_Witness ==
  /\ pc = "done"
  /\ query.kind = "slot" /\ query.bind_type = "STORAGE_BUFFER" /\ query.result # NULL
  /\ \E j, k, l \in 1..Len(all_resources) :
       /\ j < k /\ k < l
       /\ all_resources[j].bind_type = "STORAGE_BUFFER"
       /\ all_resources[k].bind_type = "SAMPLER"
       /\ all_resources[l].bind_type = "UNIFORM_BUFFER"
       /\ all_resources[j].slot = all_resources[k].slot
       /\ all_resources[k].slot = all_resources[l].slot
       /\ query.binding = all_resources[j].slot

\* C9: strict construction pipeline.  The stages follow one another in the
\* order counts, allocation, population (three loops), sort, location pass;
\* the descriptor set locations change only once the table is populated and
\* sorted; the table does not change from the first location write to the
\* return; and iteration k of the second pass stores the counter value k - 1
\* at the record of the k-th resource of the list.
PipelineOrder ==
  {<<"start", "count">>, <<"count", "ubo">>, <<"ubo", "tex">>, <<"tex", "ssbo">>,
   <<"ssbo", "sort">>, <<"sort", "locs">>, <<"locs", "locate">>, <<"locate", "done">>,
   <<"done", "start">>}

C9_StrictPipeline ==
  /\ [][pc' # pc => <<pc, pc'>> \in PipelineOrder]_vars
  /\ [][descriptor_set_locations_' # descriptor_set_locations_
          => (pc \in {"locs", "locate"} /\ Populated /\ SortedTable)]_vars
  /\ [][(pc \in {"locs", "locate"}) => UNCHANGED inputs_]_vars
  /\ [][(pc = "locate" /\ i' = i + 1)
          => (/\ descriptor_set_location = i - 1
              /\ descriptor_set_locations_' =
                   [descriptor_set_locations_ EXCEPT
                      ![shader_input_get_res(all_resources[i])] = i - 1])]_vars

C9_Witness ==
  /\ pc = "locate"
  /\ i = Len(all_resources) /\ i = MaxPass + MaxBatch
  /\ SortPermuted
  /\ \E p \in 1..Len(inputs_) : descriptor_set_locations_[p] = NoLocation

\* C10: degenerate image_offset_.  Without a sampler in the list init computes
\* image_offset_ = 0, every image record's location and binding are its raw
\* slot and an image lookup for slot s searches for s; with exactly two storage
\* buffers at slots 0 and 1 the build does not fault and ends with two records
\* of locations 0 and 1, found by their slots.
C10_DegenerateImageOffset ==
  /\ (pc \in PostAlloc /\ ~HasType("SAMPLER")) =>
       /\ image_offset_ = 0
       /\ pc \in PostPopulation =>
            \A p \in 1..Len(inputs_) :
              OriginOf(p).bind_type = "IMAGE" =>
                (inputs_[p].location = OriginOf(p).slot /\ inputs_[p].binding = OriginOf(p).slot)
       /\ pc = "done" =>
            \A s \in QuerySlots : shader_input_get("IMAGE", s) = texture_get(s)
  /\ (/\ Len(info.pass_resources_) + Len(info.batch_resources_) = 2
      /\ \A r \in {(info.pass_resources_ \o info.batch_resources_)[k] : k \in 1..2} :
           r.bind_type = "STORAGE_BUFFER"
      /\ {(info.pass_resources_ \o info.batch_resources_)[k].slot : k \in 1..2} = {0, 1}) =>
       /\ pc # "ub"
       /\ pc = "done" =>
            /\ Len(inputs_) = 2
            /\ {inputs_[p].location : p \in 1..2} = {0, 1}
            /\ \A s \in {0, 1} :
                 /\ shader_input_get("STORAGE_BUFFER", s) # NULL
                 /\ inputs_[shader_input_get("STORAGE_BUFFER", s)].location = s
                 /\ inputs_[shader_input_get("STORAGE_BUFFER", s)].binding = s

C10_Witness ==
  /\ pc = "done"
  /\ ~HasType("SAMPLER")
  /\ \E j, k, l \in 1..Len(all_resources) :
       /\ all_resources[j].bind_type = "IMAGE" /\ all_resources[j].slot = MaxSlot
       /\ all_resources[k].bind_type = "STORAGE_BUFFER" /\ all_resources[k].slot = 0
       /\ all_resources[l].bind_type = "STORAGE_BUFFER" /\ all_resources[l].slot = 1

====
